---------------------------- MODULE Spec2Model ----------------------------
(***************************************************************************)
(* A model of the hands-nn training harness (tfmodel.py, class TFModel)    *)
(* and of the convolutional LSTM cell (convolutional_lstm.py).             *)
(*                                                                         *)
(* The numerical work (convolution, gradients, the Adam update, the        *)
(* checkpoint format) belongs to the framework.  The model keeps what the  *)
(* repository's own code decides: the control flow of train and predict,   *)
(* what a session holds, what a checkpoint stores, and the tensor SHAPES   *)
(* the cell builds.  A tensor value of the harness is a small integer      *)
(* vector, a tensor of the cell is its shape.                              *)
(***************************************************************************)
EXTENDS Integers, Sequences, FiniteSets

(***************************************************************************)
(* Bounds of the model.                                                    *)
(***************************************************************************)
NumImages == 3          \* len(images)
MaxParam == 2           \* learnable parameters take the values 0..MaxParam
MaxEpochs == 2          \* largest epochs argument tried
MaxBatch == 3           \* largest batch_size argument tried
MaxStep == 4            \* cap of the global step counter
MaxSessions == 2        \* cap of the number of sessions created
MaxCalls == 2           \* cap of the number of cell steps in one sequence

\* Python's None is the empty tuple, a value v that is present is <<v>>
None == <<>>
Some(v) == <<v>>
IsNone(o) == Len(o) = 0
Get(o) == o[1]

NoSnapshot == [saved |-> FALSE, params |-> 0, step |-> 0]

Min(a, b) == IF a < b THEN a ELSE b

CeilDiv(a, b) == (a + b - 1) \div b

RECURSIVE Flatten(_)
Flatten(ss) == IF ss = <<>> THEN <<>> ELSE Head(ss) \o Flatten(Tail(ss))

\* the number of positions of sequence s that hold x
Count(s, x) == Cardinality({i \in DOMAIN s : s[i] = x})

\* s and t hold the same elements the same number of times
IsPermutation(s, t) ==
    /\ Len(s) = Len(t)
    /\ \A i \in DOMAIN t : Count(s, t[i]) = Count(t, t[i])

(***************************************************************************)
(* The data the caller passes.  Python indices are 0-based.                *)
(***************************************************************************)
\* images: image k is a vector of two pixels
Images == [k \in 0..(NumImages - 1) |-> <<k - 1, 1 - 2 * k>>]

\* list(range(len(images)))
Range(n) == [i \in 1..n |-> i - 1]

\* the indices arguments tried with train
TrainSelections == {<<>>, <<1>>, <<2, 0>>, <<1, 1, 0>>}

\* the indices arguments tried with predict
PredictSelections == {<<>>, <<1>>, <<2, 0>>, <<0, 2, 2>>}

Paths == {"a", "b"}

Errors == {"ResourceExhaustedError", "InvalidArgumentError"}

\* the values a learnable parameter can take, and those an initializer gives
ParamValues == 0..MaxParam
InitValues == {0, 1}

\* the instance configuration a subtype supplies
SelfEpochs == MaxEpochs
SelfBatchSize == 2

VARIABLES
    \* ---- the harness ----
    session,      \* identity of the current tf.Session (a counter)
    params,       \* the session's value of the learnable parameters
    step,         \* the session's value of the step variable
    ckpt,         \* path -> the variable values saved there, if any
    predAtSave,   \* history: path -> predictions of all images when saved
    pc,           \* "idle" or "train"
    lastOp,       \* the operation called last
    args,         \* its indices argument (None or Some(list))
    argPath,      \* its path argument ("" when it has none)
    ret,          \* the value the last call returned
    raised,       \* "none" or the error the last call raised
    indices,      \* train: the working index list
    working,      \* history: the working index list when train was called
    epochs,       \* train: epochs after defaulting
    batch_size,   \* train: batch_size after defaulting
    epoch,        \* train: loop iterations of the epoch loop started
    shuffles,     \* history: random.shuffle calls of this train call
    batches,      \* train: chunks(indices, batch_size) of the current epoch
    bi,           \* train: batches of the current epoch taken from `batches`
    runs,         \* session.run requests of the last train or predict call
    summaries,    \* train: tags of the records given to the FileWriter
    writerOpen,   \* train: the FileWriter is not closed
    step0,        \* history: step when train was called
    prevOrder,    \* history: the order of indices before the last shuffle
    before,       \* history: (params, step) just before the last load/reset
    \* ---- the cell ----
    cfg,          \* None or the fields __init__ set
    cstate,       \* None or the LSTMStateTuple (cell shape, hidden shape)
    kernel,       \* None or the shape of the variable "kernel"
    output,       \* None or the shape of the output the last call returned
    gate,         \* None or the shape of each of the four gate slices
    convOp,       \* 0 or the rank of the convolution _conv selected (1, 2, 3)
    cellErr,      \* the cell's last operation raised ValueError
    calls         \* number of steps taken since zero_state

hvars == <<session, params, step, ckpt, predAtSave, pc, lastOp, args, argPath,
           ret,
           raised, indices, working, epochs, batch_size, epoch, shuffles,
           batches, bi, runs, summaries, writerOpen, step0, prevOrder,
           before>>
cvars == <<cfg, cstate, kernel, output, gate, convOp, cellErr, calls>>
vars == <<hvars, cvars>>

(***************************************************************************)
(* The graph: _build_network is the subtype's hook; a one-parameter        *)
(* per-pixel affine map stands for it.                                     *)
(***************************************************************************)
\* self.logits = self._build_network(self.images), on a batch of images
BuildNetwork(p, imgs) ==
    [n \in DOMAIN imgs |-> [k \in DOMAIN imgs[n] |-> p * imgs[n][k] + (k - 1)]]

\* self.pred_labels = tf.greater(self.logits, 0)
PredLabels(p, imgs) ==
    LET logits == BuildNetwork(p, imgs)
    IN  [n \in DOMAIN logits |-> [k \in DOMAIN logits[n] |-> logits[n][k] > 0]]


(***************************************************************************)
(* State after construction: _build_model has built the graph (step is a   *)
(* variable initialised to 0) and called reset once.                       *)
(***************************************************************************)
\* the values the variables' initializers give: step = tf.Variable(0), and
\* the network's parameters what their initializers draw
InitializedValues == {[params |-> v, step |-> 0] : v \in InitValues}

ClearTrain ==
    /\ indices' = <<>>
    /\ working' = <<>>
    /\ epochs' = 0
    /\ batch_size' = 0
    /\ epoch' = 0
    /\ shuffles' = 0
    /\ batches' = <<>>
    /\ bi' = 0
    /\ summaries' = <<>>
    /\ writerOpen' = FALSE
    /\ step0' = 0
    /\ prevOrder' = <<>>

HarnessInit ==
    /\ session = 1
    /\ \E v \in InitializedValues : params = v.params /\ step = v.step
    /\ ckpt = [p \in Paths |-> NoSnapshot]
    /\ predAtSave = [p \in Paths |-> None]
    /\ pc = "idle"
    /\ lastOp = "init"
    /\ args = None
    /\ argPath = ""
    /\ ret = None
    /\ raised = "none"
    /\ indices = <<>>
    /\ working = <<>>
    /\ epochs = 0
    /\ batch_size = 0
    /\ epoch = 0
    /\ shuffles = 0
    /\ batches = <<>>
    /\ bi = 0
    /\ runs = 0
    /\ summaries = <<>>
    /\ writerOpen = FALSE
    /\ step0 = 0
    /\ prevOrder = <<>>
    /\ before = None

(***************************************************************************)
(* reset: _reset_model and _initialize_model.                              *)
(***************************************************************************)
\* an initializer run that covers the trainable variables only
InitializeModelTrainableOnly ==
    {[params |-> v, step |-> step] : v \in InitValues}

\* _initialize_model: session.run(tf.global_variables_initializer())
InitializeModel == InitializedValues

\* _reset_model: a new tf.Session on self.graph, then _initialize_model
Reset ==
    /\ pc = "idle"
    /\ session < MaxSessions
    /\ session' = session + 1
    /\ \E v \in InitializeModel : params' = v.params /\ step' = v.step
    /\ before' = Some(<<params, step>>)
    /\ lastOp' = "reset"
    /\ args' = None
    /\ argPath' = ""
    /\ ret' = None
    /\ raised' = "none"
    /\ runs' = 0
    /\ ClearTrain
    /\ UNCHANGED <<ckpt, predAtSave, pc>>
    /\ UNCHANGED cvars

(***************************************************************************)
(* predict                                                                 *)
(***************************************************************************)
\* np.r_[tuple(indices)]: the concatenation of the items of the tuple (None
\* when numpy raises ValueError: of an empty tuple there is nothing to
\* concatenate)
NpR(t) == IF Len(t) = 0 THEN None ELSE Some(t)

\* images[indices]
Take(imgs, idx) == [i \in 1..Len(idx) |-> imgs[idx[i]]]

\* for i, image in enumerate(images): pred[i] = run(pred_labels, [image])[0]
PredictLoop(p, imgs) == [i \in 1..Len(imgs) |-> PredLabels(p, <<imgs[i]>>)[1]]

\* predict(images) of a session whose parameters are p
PredictAll(p) == PredictLoop(p, Take(Images, Range(NumImages)))

Predict(idxArg) ==
    /\ pc = "idle"
    /\ lastOp' = "predict"
    /\ before' = None
    /\ args' = idxArg
    /\ argPath' = ""
    /\ LET idx == IF IsNone(idxArg) THEN Some(Range(NumImages))
                  ELSE NpR(Get(idxArg))
       IN  IF IsNone(idx)
           THEN /\ raised' = "ValueError"
                /\ ret' = None
                /\ runs' = 0
           ELSE /\ raised' = "none"
                /\ ret' = Some(PredictLoop(params, Take(Images, Get(idx))))
                /\ runs' = Len(Get(idx))
    /\ ClearTrain
    /\ UNCHANGED <<session, params, step, ckpt, predAtSave, pc>>
    /\ UNCHANGED cvars

(***************************************************************************)
(* save and load: tf.train.Saver() saves and restores every variable of    *)
(* the graph, the step variable included.                                  *)
(***************************************************************************)
\* self.saver.save(self.session, path+"/model.ckpt")
SaverSave == [saved |-> TRUE, params |-> params, step |-> step]

\* self.saver.restore(self.session, path+"/model.ckpt")
SaverRestoreStepOnly(snap) == [params |-> params, step |-> snap.step]

SaverRestore(snap) == [params |-> snap.params, step |-> snap.step]

Save(path) ==
    /\ pc = "idle"
    /\ ckpt' = [ckpt EXCEPT ![path] = SaverSave]
    /\ predAtSave' = [predAtSave EXCEPT ![path] = Some(PredictAll(params))]
    /\ lastOp' = "save"
    /\ before' = None
    /\ args' = None
    /\ argPath' = path
    /\ ret' = None
    /\ raised' = "none"
    /\ runs' = 0
    /\ ClearTrain
    /\ UNCHANGED <<session, params, step, pc>>
    /\ UNCHANGED cvars

Load(path) ==
    /\ pc = "idle"
    /\ lastOp' = "load"
    /\ before' = Some(<<params, step>>)
    /\ args' = None
    /\ argPath' = path
    /\ ret' = None
    /\ runs' = 0
    /\ IF ~ckpt[path].saved
       THEN /\ raised' = "NotFoundError"
            /\ UNCHANGED <<params, step>>
       ELSE /\ raised' = "none"
            /\ params' = SaverRestore(ckpt[path]).params
            /\ step' = SaverRestore(ckpt[path]).step
    /\ ClearTrain
    /\ UNCHANGED <<session, ckpt, predAtSave, pc>>
    /\ UNCHANGED cvars

(***************************************************************************)
(* train                                                                   *)
(***************************************************************************)
\* misc.chunks(l, n): the slices l[i:i+n] for i in range(0, len(l), n)
chunks(l, n) ==
    [k \in 1..CeilDiv(Len(l), n) |->
        SubSeq(l, (k - 1) * n + 1, Min(k * n, Len(l)))]

\* the bijections of 1..n
Perms(n) == {f \in [1..n -> 1..n] : \A i, j \in 1..n : f[i] = f[j] => i = j}

\* random.sample-like draw with replacement: a position may be drawn twice
ShuffleWithReplacement(l) ==
    {[i \in 1..Len(l) |-> l[f[i]]] : f \in [1..Len(l) -> 1..Len(l)]}

\* random.shuffle(l): the orders l can be left in
Shuffle(l) == {[i \in 1..Len(l) |-> l[f[i]]] : f \in Perms(Len(l))}

\* for epoch in range(epochs): another iteration is due
MoreEpochsOffByOne == epoch <= epochs

MoreEpochs == epoch < epochs

\* for i, frames in enumerate(batches, 1): another batch is due
MoreBatches == bi < Len(batches)

\* lines 77-86: the defaults, the working copy of the indices, the writer
TrainCall(idxArg, epochsArg, bsArg) ==
    LET idx == IF IsNone(idxArg) THEN Range(NumImages) ELSE Get(idxArg)
        e == IF IsNone(epochsArg) THEN SelfEpochs ELSE Get(epochsArg)
        b == IF IsNone(bsArg) THEN SelfBatchSize ELSE Get(bsArg)
    IN  /\ pc = "idle"
        /\ step + e * CeilDiv(Len(idx), b) <= MaxStep
        /\ pc' = "train"
        /\ lastOp' = "train"
        /\ before' = None
        /\ prevOrder' = <<>>
        /\ args' = idxArg
        /\ argPath' = ""
        /\ ret' = None
        /\ raised' = "none"
        /\ indices' = idx
        /\ working' = idx
        /\ epochs' = e
        /\ batch_size' = b
        /\ epoch' = 0
        /\ shuffles' = 0
        /\ batches' = <<>>
        /\ bi' = 0
        /\ runs' = 0
        /\ summaries' = <<>>
        /\ writerOpen' = TRUE
        /\ step0' = step
        /\ UNCHANGED <<session, params, step, ckpt, predAtSave>>
        /\ UNCHANGED cvars

\* lines 90-96: the next epoch starts: shuffle in place, then chunk
TrainEpoch ==
    /\ pc = "train"
    /\ ~MoreBatches
    /\ MoreEpochs
    /\ epoch' = epoch + 1
    /\ prevOrder' = indices
    /\ indices' \in Shuffle(indices)
    /\ shuffles' = shuffles + 1
    /\ batches' = chunks(indices', batch_size)
    /\ bi' = 0
    /\ UNCHANGED <<session, params, step, ckpt, predAtSave, pc, lastOp, args,
                   argPath, ret, raised, working, epochs, batch_size, runs,
                   summaries, writerOpen, step0, before>>
    /\ UNCHANGED cvars

\* a variant of the batch that reads the tag before the optimizer has run
TrainBatchStaleTag ==
    /\ pc = "train"
    /\ MoreBatches
    /\ bi' = bi + 1
    /\ runs' = runs + 1
    /\ params' \in ParamValues
    /\ step' = step + 1
    /\ summaries' = Append(summaries, step)
    /\ UNCHANGED <<session, ckpt, predAtSave, pc, lastOp, args, argPath, ret,
                   raised, indices, working, epochs, batch_size, epoch,
                   shuffles, batches, writerOpen, step0, prevOrder, before>>
    /\ UNCHANGED cvars

\* lines 102-104: session.run([summary, optimizer]) succeeds: the optimizer
\* moves the parameters and adds one to step; then writer.add_summary with the
\* value of step read back from the session
TrainBatch ==
    /\ pc = "train"
    /\ MoreBatches
    /\ bi' = bi + 1
    /\ runs' = runs + 1
    /\ params' \in ParamValues
    /\ step' = step + 1
    /\ summaries' = Append(summaries, step')
    /\ UNCHANGED <<session, ckpt, predAtSave, pc, lastOp, args, argPath, ret,
                   raised, indices, working, epochs, batch_size, epoch,
                   shuffles, batches, writerOpen, step0, prevOrder, before>>
    /\ UNCHANGED cvars

\* a variant of the failing batch that catches the error and goes on
TrainBatchErrorSkip ==
    /\ pc = "train"
    /\ MoreBatches
    /\ bi' = bi + 1
    /\ runs' = runs + 1
    /\ \E err \in Errors : raised' = err
    /\ UNCHANGED <<session, params, step, ckpt, predAtSave, pc, lastOp, args,
                   argPath, ret, indices, working, epochs, batch_size, epoch,
                   shuffles, batches, summaries, writerOpen, step0, prevOrder,
                   before>>
    /\ UNCHANGED cvars

\* lines 102-103: session.run raises; nothing in train catches it, so the
\* call ends there: no add_summary, no writer.close()
TrainBatchError ==
    /\ pc = "train"
    /\ MoreBatches
    /\ runs' = runs + 1
    /\ \E err \in Errors : raised' = err
    /\ pc' = "idle"
    /\ UNCHANGED <<session, params, step, ckpt, predAtSave, lastOp, args,
                   argPath, ret, indices, working, epochs, batch_size, epoch,
                   shuffles, batches, bi, summaries, writerOpen, step0,
                   prevOrder, before>>
    /\ UNCHANGED cvars

\* line 105: both loops are over: writer.close() and return
TrainReturn ==
    /\ pc = "train"
    /\ ~MoreBatches
    /\ ~MoreEpochs
    /\ writerOpen' = FALSE
    /\ pc' = "idle"
    /\ UNCHANGED <<session, params, step, ckpt, predAtSave, lastOp, args,
                   argPath, ret, raised, indices, working, epochs, batch_size,
                   epoch, shuffles, batches, bi, runs, summaries, step0,
                   prevOrder, before>>
    /\ UNCHANGED cvars

(***************************************************************************)
(* The convolutional LSTM cell.  A tensor is its static shape, a list of   *)
(* ints; an operation that raises ValueError while the graph is built      *)
(* gives None.                                                             *)
(***************************************************************************)
Last(sh) == sh[Len(sh)]
Front(sh) == SubSeq(sh, 1, Len(sh) - 1)

\* the configurations tried with the constructor
SpatialDim == 3
InputShapes ==
    {[i \in 1..(n + 1) |-> IF i = n + 1 THEN c ELSE SpatialDim] :
        n \in 1..3, c \in 1..2}
KernelShapes == {[i \in 1..n |-> 3] : n \in 0..4}
OutputChannels == 1..2
BatchSizes == 1..2

\* elementwise x * y, x + y: the broadcast of the two shapes
BroadcastShape(a, b) ==
    LET n == IF Len(a) > Len(b) THEN Len(a) ELSE Len(b)
        pa == [i \in 1..n |-> IF i <= n - Len(a) THEN 1 ELSE a[i - (n - Len(a))]]
        pb == [i \in 1..n |-> IF i <= n - Len(b) THEN 1 ELSE b[i - (n - Len(b))]]
    IN  IF \A i \in 1..n : pa[i] = pb[i] \/ pa[i] = 1 \/ pb[i] = 1
        THEN Some([i \in 1..n |-> IF pa[i] = 1 THEN pb[i] ELSE pa[i]])
        ELSE None

\* array_ops.concat of two tensors along the last axis
ConcatLast(a, b) ==
    IF Len(a) = Len(b) /\ Len(a) >= 1 /\ Front(a) = Front(b)
    THEN Some(Front(a) \o <<Last(a) + Last(b)>>)
    ELSE None

\* array_ops.split(value, num, axis): the shape of each of the num parts
SplitShape(sh, num, axis) ==
    IF axis + 1 <= Len(sh) /\ sh[axis + 1] % num = 0
    THEN Some([sh EXCEPT ![axis + 1] = sh[axis + 1] \div num])
    ELSE None

\* lines 34-48: the fields __init__ sets; nothing is validated
CellFields(input_shape, output_channels, kernel_shape, use_bias, skip) ==
    [conv_ndims |-> Len(kernel_shape),
     input_shape |-> input_shape,
     output_channels |-> output_channels,
     kernel_shape |-> kernel_shape,
     use_bias |-> use_bias,
     skip_connection |-> skip,
     total_output_channels |->
        IF skip THEN output_channels + Last(input_shape) ELSE output_channels]

Construct(input_shape, output_channels, kernel_shape, use_bias, skip) ==
    /\ IsNone(cfg)
    /\ cfg' = Some(CellFields(input_shape, output_channels, kernel_shape,
                              use_bias, skip))
    /\ cellErr' = FALSE
    /\ UNCHANGED <<cstate, kernel, output, gate, convOp, calls>>
    /\ UNCHANGED hvars

\* lines 50-56: the properties
OutputSize(c) == Front(c.input_shape) \o <<c.total_output_channels>>
StateSize(c) == Front(c.input_shape) \o <<c.output_channels>>

\* lines 58-65: zero_state: both tensors get the same shape
ZeroStateShapes(c, batch) ==
    LET shape == <<batch>> \o Front(c.input_shape) \o <<c.total_output_channels>>
    IN  <<shape, shape>>

ZeroState(batch) ==
    /\ ~IsNone(cfg)
    /\ cstate' = Some(ZeroStateShapes(Get(cfg), batch))
    /\ calls' = 0
    /\ output' = None
    /\ gate' = None
    /\ cellErr' = FALSE
    /\ UNCHANGED <<cfg, kernel, convOp>>
    /\ UNCHANGED hvars

\* lines 105-127: the rank checks of _conv and the convolution it selects:
\* the number of spatial dimensions of the conv op, or 0 for a ValueError
ConvRank(shapes) ==
    IF \A i \in DOMAIN shapes :
          Len(shapes[i]) \in {3, 4, 5} /\ Len(shapes[i]) = Len(shapes[1])
    THEN Len(shapes[1]) - 2
    ELSE 0

\* lines 130-133: the shape asked of the variable "kernel"
KernelShape(shapes, filter_size, num_features) ==
    filter_size \o <<shapes[1][Len(shapes[1])] + shapes[2][Len(shapes[2])],
                     num_features>>

\* lines 134-151: the convolution of the two concatenated args with the
\* kernel, stride 1 and SAME padding, and the bias added when asked for: the
\* conv op wants a kernel of the rank of its input
ConvResult(shapes, kshape, num_features, bias) ==
    LET cat == ConcatLast(shapes[1], shapes[2])
    IN  IF IsNone(cat) \/ Len(kshape) # Len(shapes[1])
        THEN None
        ELSE LET res == Front(Get(cat)) \o <<num_features>>
             IN  IF bias THEN BroadcastShape(res, <<num_features>>)
                 ELSE Some(res)

\* lines 67-85: call; r is what the step yields: the kernel variable as it
\* is left, the conv selected, and (ok) the gate, cell, output shapes
CallResult(c, inputs, state, kvar) ==
    LET cell == state[1]
        hidden == state[2]
        shapes == <<inputs, hidden>>
        rank == ConvRank(shapes)
        kshape == KernelShape(shapes, c.kernel_shape, 4 * c.output_channels)
        fail == [ok |-> FALSE, kernel |-> kvar, convOp |-> 0,
                 gate |-> <<>>, cell |-> <<>>, output |-> <<>>]
    IN  IF rank = 0 THEN fail
        ELSE IF ~IsNone(kvar) /\ Get(kvar) # kshape THEN fail
        ELSE
        LET kv == Some(kshape)
            new_hidden == ConvResult(shapes, kshape, 4 * c.output_channels,
                                     c.use_bias)
            failK == [fail EXCEPT !.kernel = kv]
        IN  IF IsNone(new_hidden) THEN failK
            ELSE
            LET gates == SplitShape(Get(new_hidden), 4, c.conv_ndims + 1)
            IN  IF IsNone(gates) THEN failK
                ELSE
                LET g == Get(gates)
                    c1 == BroadcastShape(g, cell)
                    c2 == IF IsNone(c1) THEN None
                          ELSE BroadcastShape(Get(c1), BroadcastShape(g, g)[1])
                    out == IF IsNone(c2) THEN None
                           ELSE BroadcastShape(Get(c2), g)
                    out2 == IF IsNone(out) THEN None
                            ELSE IF c.skip_connection
                                 THEN ConcatLast(Get(out), inputs)
                                 ELSE out
                IN  IF IsNone(out2) THEN failK
                    ELSE [ok |-> TRUE, kernel |-> kv, convOp |-> rank,
                          gate |-> g, cell |-> Get(c2), output |-> Get(out2)]

Call ==
    /\ ~IsNone(cfg)
    /\ ~IsNone(cstate)
    /\ ~cellErr
    /\ calls < MaxCalls
    /\ LET c == Get(cfg)
           st == Get(cstate)
           inputs == <<st[1][1]>> \o c.input_shape
           r == CallResult(c, inputs, st, kernel)
       IN  /\ kernel' = r.kernel
           /\ IF r.ok
              THEN /\ cstate' = Some(<<r.cell, r.output>>)
                   /\ output' = Some(r.output)
                   /\ gate' = Some(r.gate)
                   /\ convOp' = r.convOp
                   /\ calls' = calls + 1
                   /\ cellErr' = FALSE
              ELSE /\ cellErr' = TRUE
                   /\ UNCHANGED <<cstate, output, gate, convOp, calls>>
    /\ UNCHANGED cfg
    /\ UNCHANGED hvars

CellInit ==
    /\ cfg = None
    /\ cstate = None
    /\ kernel = None
    /\ output = None
    /\ gate = None
    /\ convOp = 0
    /\ cellErr = FALSE
    /\ calls = 0

(***************************************************************************)
(* The specifications.  Spec is the harness with every operation, train    *)
(* called with a few arguments; SpecTrain is reset and train, train called *)
(* with every argument tried; SpecCell is the cell.                        *)
(***************************************************************************)
Init == HarnessInit /\ CellInit

OptIndices(S) == {None} \cup {Some(x) : x \in S}
OptEpochs == {None} \cup {Some(n) : n \in 0..MaxEpochs}
OptBatch == {None} \cup {Some(n) : n \in 1..MaxBatch}

Next ==
    \/ Reset
    \/ \E i \in OptIndices(PredictSelections) : Predict(i)
    \/ \E p \in Paths : Save(p)
    \/ \E p \in Paths : Load(p)
    \/ \E e \in {None, Some(1)}, b \in {None, Some(1)} :
          TrainCall(Some(<<2, 0>>), e, b)
    \/ TrainEpoch
    \/ TrainBatch
    \/ TrainBatchError
    \/ TrainReturn

Spec == Init /\ [][Next]_vars

NextTrain ==
    \/ Reset
    \/ \E i \in OptIndices(TrainSelections), e \in OptEpochs, b \in OptBatch :
          TrainCall(i, e, b)
    \/ TrainEpoch
    \/ TrainBatch
    \/ TrainBatchError
    \/ TrainReturn

SpecTrain == Init /\ [][NextTrain]_vars

NextCell ==
    \/ \E i \in InputShapes, oc \in OutputChannels, k \in KernelShapes,
          ub \in BOOLEAN, sk \in BOOLEAN : Construct(i, oc, k, ub, sk)
    \/ \E b \in BatchSizes : ZeroState(b)
    \/ Call

SpecCell == Init /\ [][NextCell]_vars

(***************************************************************************)
(* Properties of train (checked under SpecTrain).                          *)
(***************************************************************************)
TrainReturned == lastOp = "train" /\ pc = "idle" /\ raised = "none"

\* ceil(N/B) for the working list of the current train call
NumBatches == CeilDiv(Len(working), batch_size)

\* C1: train makes exactly E passes; each pass cuts the shuffled working list
\* into ceil(N/B) consecutive batches, all of size B except the last, whose
\* size is N mod B (B when N mod B = 0); a call that returns has issued
\* exactly E * ceil(N/B) execution requests.
C1_Batching ==
    lastOp = "train" =>
        /\ epoch <= epochs
        /\ runs <= epochs * NumBatches
        /\ epoch >= 1 =>
              /\ Len(batches) = NumBatches
              /\ Flatten(batches) = indices
              /\ \A k \in 1..(Len(batches) - 1) : Len(batches[k]) = batch_size
              /\ Len(batches) >= 1 =>
                    Len(batches[Len(batches)]) =
                        IF Len(working) % batch_size = 0 THEN batch_size
                        ELSE Len(working) % batch_size
        /\ TrainReturned => epoch = epochs /\ runs = epochs * NumBatches

\* a returned call of 2 passes over 3 indices in batches of 2 (sizes 2, 1)
C1_Witness ==
    /\ TrainReturned
    /\ epochs = 2 /\ Len(working) = 3 /\ batch_size = 2
    /\ runs = 4
    /\ Len(batches[2]) = 1

\* the batches of the current epoch that were executed, concatenated
Executed == Flatten(SubSeq(batches, 1, bi))

\* C2: the batches of an epoch together hold every index of the working list
\* exactly as often as the working list does (a permutation: nothing dropped,
\* nothing duplicated), and the list is shuffled once per epoch.
C2_EpochIsPermutation ==
    (lastOp = "train" /\ epoch >= 1) =>
        /\ shuffles = epoch
        /\ IsPermutation(Flatten(batches), working)
        /\ \A i \in DOMAIN working :
              Count(Executed, working[i]) <= Count(working, working[i])
        /\ (raised = "none" /\ ~MoreBatches) => IsPermutation(Executed, working)

\* the second epoch of a call over 3 indices is complete, in an order that is
\* not the first epoch's
C2_Witness ==
    /\ lastOp = "train" /\ epoch = 2 /\ ~MoreBatches /\ raised = "none"
    /\ Len(working) = 3 /\ Len(batches) = 2
    /\ indices # prevOrder
    /\ IsPermutation(Executed, working)

\* C3: during train every executed batch adds one to step and appends one
\* summary record tagged with the new value of step: step never falls below
\* its value at the call, the tags are consecutive and so strictly
\* increasing, and a call that returns has raised step by E * ceil(N/B).
C3_StepAndSummaries ==
    lastOp = "train" =>
        /\ step >= step0
        /\ step = step0 + Len(summaries)
        /\ Len(summaries) = runs - (IF raised = "none" THEN 0 ELSE 1)
        /\ \A k \in DOMAIN summaries : summaries[k] = step0 + k
        /\ \A k \in 1..(Len(summaries) - 1) : summaries[k] < summaries[k + 1]
        /\ TrainReturned => step = step0 + epochs * NumBatches

\* a call that started at a step above 0 returned after 3 batches
C3_Witness ==
    /\ TrainReturned
    /\ step0 >= 1
    /\ Len(summaries) = 3
    /\ step = step0 + 3

Selected == IF IsNone(args) THEN Range(NumImages) ELSE Get(args)

\* the forward output of one image, thresholded at 0
Thresholded(p, img) == [k \in DOMAIN img |-> BuildNetwork(p, <<img>>)[1][k] > 0]

\* the result of predict is one map per selected index, in their order
PredictResultOk ==
    /\ raised = "none"
    /\ ~IsNone(ret)
    /\ Len(Get(ret)) = Len(Selected)
    /\ runs = Len(Selected)
    /\ \A i \in 1..Len(Selected) :
          Get(ret)[i] = Thresholded(params, Images[Selected[i]])

\* C4: predict over K indices returns exactly K boolean maps, result[i] the
\* thresholded forward output of the image at the i-th index, each image run
\* in its own request; without indices, all images in their order.
C4_PredictOrder == lastOp = "predict" => PredictResultOk

\* C7: after load(path) the predictions of every image are those the model
\* gave when path was saved, whatever was trained in between.
C7_RoundTrip ==
    (lastOp = "load" /\ raised = "none") =>
        /\ ~IsNone(predAtSave[argPath])
        /\ PredictAll(params) = Get(predAtSave[argPath])

\* a load that followed training after the save (step was higher than the
\* restored one) and that changed the predictions back
C7_Witness ==
    /\ lastOp = "load" /\ raised = "none"
    /\ ~IsNone(before)
    /\ Get(before)[2] > step
    /\ PredictAll(Get(before)[1]) # PredictAll(params)
    /\ PredictAll(params) = Get(predAtSave[argPath])

\* C9: after reset the session is a new one, every learnable parameter has a
\* value of its initializer and step is 0, whatever was trained or loaded
\* before.
C9_ResetDiscards ==
    lastOp = "reset" =>
        /\ session >= 2
        /\ step = 0
        /\ params \in InitValues
        /\ [params |-> params, step |-> step] \in InitializedValues

\* a reset of a session that had been trained to a value no initializer
\* gives, at a step above 0
C9_Witness ==
    /\ lastOp = "reset"
    /\ ~IsNone(before)
    /\ Get(before)[1] \notin InitValues
    /\ Get(before)[2] > 0
    /\ step = 0
    /\ params \in InitValues

(***************************************************************************)
(* Properties of the cell (checked under SpecCell).                        *)
(***************************************************************************)
\* the configuration is one the documentation allows: a kernel of 1, 2 or 3
\* dimensions, as many as the input has spatial dimensions
ValidCfg ==
    /\ ~IsNone(cfg)
    /\ Len(Get(cfg).kernel_shape) \in 1..3
    /\ Len(Get(cfg).kernel_shape) = Len(Get(cfg).input_shape) - 1

\* C5: a cell with a kernel_shape of length 0 or 4+ cannot be constructed;
\* one of length 1, 2, 3 can, and convolves in 1, 2, 3 dimensions.
C5_KernelShapeChecked ==
    ~IsNone(cfg) =>
        /\ Len(Get(cfg).kernel_shape) \in 1..3
        /\ convOp # 0 => convOp = Len(Get(cfg).kernel_shape)

\* C6: the output of a step has output_channels channels without
\* skip-connection and output_channels + input_channels with it, and the
\* hidden state returned is the output.
C6_OutputChannels ==
    (~IsNone(cfg) /\ ~IsNone(output)) =>
        /\ Last(Get(output)) =
              IF Get(cfg).skip_connection
              THEN Get(cfg).output_channels + Last(Get(cfg).input_shape)
              ELSE Get(cfg).output_channels
        /\ Get(cstate)[2] = Get(output)

\* C10: in every valid configuration the step accepts the state zero_state
\* gives and returns a state of the same shapes, so it can be repeated; the
\* cell memory of zero_state has output_channels channels, like the gates.
C10_Recurrence ==
    (ValidCfg /\ ~IsNone(cstate)) =>
        /\ ~cellErr
        /\ Last(Get(cstate)[1]) = Get(cfg).output_channels
        /\ Tail(Get(cstate)[1]) = StateSize(Get(cfg))
        /\ Tail(Get(cstate)[2]) = OutputSize(Get(cfg))
        /\ ~IsNone(gate) => Last(Get(gate)) = Last(Get(cstate)[1])

=============================================================================
